---- MODULE Spec2Model ----
(***************************************************************************)
(* Model of the client-side image converter (converter.js):                *)
(*   - canvasToBMP, the 24-bit BMP writer, as an operator over a canvas;    *)
(*   - convertImageFile / loadImageFromFile as an asynchronous pipeline;    *)
(*   - the Convert / Download / file-selection handlers over the page      *)
(*     state currentFile, convertedBlob, convertedURL and the DOM fields;  *)
(*   - dataURLToBlob, the handler's reading of the sliders, and pairs of   *)
(*     convertImageFile calls, each run on its own (fnCall).               *)
(***************************************************************************)
EXTENDS Integers, Sequences, FiniteSets, TLC

(* ------------------------------ bounds --------------------------------- *)
MaxW == 5
MaxH == 2
MaxPixels == 6

Null == "null"

(* Strings the code takes apart (MIME types, file names, data URLs) are     *)
(* sequences of tokens: the delimiters "/", ".", ":", ";", ",", "+", "-"    *)
(* are tokens of their own, every other token is a non-empty run of other  *)
(* characters.                                                             *)
MimePNG  == <<"image", "/", "png">>
MimeJPEG == <<"image", "/", "jpeg">>
MimeWEBP == <<"image", "/", "webp">>
MimeSVG  == <<"image", "/", "svg", "+", "xml">>
MimeBMP  == <<"image", "/", "bmp">>

NoBlob == [type |-> << >>]

(* ------------------------- numeric helpers ----------------------------- *)
Max(a, b) == IF a >= b THEN a ELSE b
Min(a, b) == IF a <= b THEN a ELSE b

RECURSIVE Pow(_, _)
Pow(b, e) == IF e = 0 THEN 1 ELSE b * Pow(b, e - 1)

(* ======================================================================= *)
(*                         canvasToBMP (BMP writer)                        *)
(* ======================================================================= *)

(* The RGBA colours a canvas pixel can take in the model: r, g, b, a.      *)
Palette == << <<255, 0, 0, 77>>, <<0, 255, 0, 128>>,
              <<0, 0, 255, 33>>, <<255, 255, 0, 200>> >>

(* imageData.data of a width x height canvas whose pixel k (row-major,     *)
(* top row first) has colour Palette[img[k]]: a flat RGBA byte array.      *)
ImageData(width, height, img) ==
    [i \in 0 .. (4 * width * height - 1) |-> Palette[img[i \div 4]][(i % 4) + 1]]

(* DataView setters, little-endian: the byte writes they perform.  Byte j  *)
(* of the n-byte two's-complement encoding of v is floor(v / 256^(j-1))    *)
(* mod 256, for signed and unsigned v alike.                               *)
LEBytes(offset, v, n) ==
    [j \in 1 .. n |-> [at |-> offset + j - 1,
                       b  |-> (v \div Pow(256, j - 1)) % 256]]

setUint8(offset, v)  == LEBytes(offset, v, 1)
setUint16(offset, v) == LEBytes(offset, v, 2)
setUint32(offset, v) == LEBytes(offset, v, 4)
setInt32(offset, v)  == LEBytes(offset, v, 4)

rowStride_floor(width) == ((24 * width) \div 32) * 4
rowStride(width) == ((24 * width + 31) \div 32) * 4

pixelArraySize_unpadded(width, height) == 3 * width * height
pixelArraySize(width, height) == rowStride(width) * height

fileSize(width, height) == 54 + pixelArraySize(width, height)

padding(width) == rowStride(width) - width * 3

(* The header fields in the order the code writes them: setter width in    *)
(* bytes and value.                                                        *)
HeaderFields(width, height) ==
    << [n |-> 1, v |-> 66],                       \* 'B'
       [n |-> 1, v |-> 77],                       \* 'M'
       [n |-> 4, v |-> fileSize(width, height)],  \* size
       [n |-> 2, v |-> 0],                        \* reserved1
       [n |-> 2, v |-> 0],                        \* reserved2
       [n |-> 4, v |-> 54],                       \* offset to pixel array
       [n |-> 4, v |-> 40],                       \* header size
       [n |-> 4, v |-> width],
       [n |-> 4, v |-> height],
       [n |-> 2, v |-> 1],                        \* planes
       [n |-> 2, v |-> 24],                       \* bits per pixel
       [n |-> 4, v |-> 0],                        \* compression
       [n |-> 4, v |-> pixelArraySize(width, height)],
       [n |-> 4, v |-> 2835],
       [n |-> 4, v |-> 2835],
       [n |-> 4, v |-> 0],
       [n |-> 4, v |-> 0] >>

(* dv.setX(offset, v); offset += n, for each field in turn.                *)
RECURSIVE WriteHeader(_, _, _, _)
WriteHeader(fields, k, offset, log) ==
    IF k > Len(fields) THEN [offset |-> offset, log |-> log]
    ELSE WriteHeader(fields, k + 1, offset + fields[k].n,
                     log \o LEBytes(offset, fields[k].v, fields[k].n))

(* The three bytes written for the pixel at byte index i of pixels.        *)
PixelBytes_rgb(pixels, i) == << pixels[i], pixels[i + 1], pixels[i + 2] >>
PixelBytes(pixels, i) == << pixels[i + 2], pixels[i + 1], pixels[i] >>

(* One iteration of the outer loop: row y written at cursor p.             *)
RowWrites(pixels, width, y, p) ==
    LET pad == IF padding(width) > 0 THEN padding(width) ELSE 0
        px  == [j \in 1 .. 3 * width |->
                  [at |-> p + j - 1,
                   b  |-> PixelBytes(pixels, (y * width + ((j - 1) \div 3)) * 4)[((j - 1) % 3) + 1]]]
        pd  == [k \in 1 .. pad |-> [at |-> p + 3 * width + k - 1, b |-> 0]]
    IN  [p |-> p + 3 * width + pad, log |-> px \o pd]

RowOrder_topdown(height) == [k \in 1 .. height |-> k - 1]
(* for(let y = height - 1; y >= 0; y--)                                    *)
RowOrder(height) == [k \in 1 .. height |-> height - k]

RECURSIVE WriteRows(_, _, _, _, _, _)
WriteRows(pixels, width, order, k, p, log) ==
    IF k > Len(order) THEN [p |-> p, log |-> log]
    ELSE LET r == RowWrites(pixels, width, order[k], p)
         IN  WriteRows(pixels, width, order, k + 1, r.p, log \o r.log)

(* new ArrayBuffer(size) is zero-filled; a write at or past the end throws  *)
(* a RangeError and does not land.                                         *)
ApplyWrites(size, log) ==
    [i \in 0 .. (size - 1) |->
        LET ks == {k \in DOMAIN log : log[k].at = i}
        IN  IF ks = {} THEN 0
            ELSE log[CHOOSE k \in ks : \A k2 \in ks : k2 <= k].b]

canvasToBMP(cv) ==
    LET pixels == ImageData(cv.width, cv.height, cv.img)
        hdr    == WriteHeader(HeaderFields(cv.width, cv.height), 1, 0, << >>)
        body   == WriteRows(pixels, cv.width, RowOrder(cv.height), 1, 54, << >>)
        log    == hdr.log \o body.log
        size   == fileSize(cv.width, cv.height)
    IN  [type   |-> MimeBMP,
         size   |-> size,
         buffer |-> ApplyWrites(size, log),
         log    |-> log,
         offset |-> hdr.offset,
         p      |-> body.p,
         threw  |-> \E k \in DOMAIN log : log[k].at >= size]

(* ======================================================================= *)
(*                 strings: MIME types, file names, data URLs              *)
(* ======================================================================= *)

(* s.split(d): the pieces of s between the occurrences of the token d.     *)
(* (str is s, bound to its value once.)                                    *)
RECURSIVE Split(_, _)
Split(s, d) ==
    CHOOSE pieces \in
        {IF \A k \in DOMAIN str : str[k] # d THEN << str >>
         ELSE LET i == CHOOSE k \in DOMAIN str :
                          str[k] = d /\ \A j \in 1 .. (k - 1) : str[j] # d
              IN  << SubSeq(str, 1, i - 1) >> \o Split(SubSeq(str, i + 1, Len(str)), d)
         : str \in {s}} : TRUE

(* s.includes(t) / s.indexOf(t) >= 0, for a one-token t.                   *)
Includes(s, t) == \E k \in DOMAIN s : s[k] = t

(* type.startsWith('image/')                                               *)
StartsWithImage(type) == Len(type) >= 2 /\ type[1] = "image" /\ type[2] = "/"

(* name.replace(/\.[^/.]+$/, ''): drops a final ".ext" when ext is a       *)
(* non-empty run without "." and "/".                                      *)
StripExt(name) ==
    IF Len(name) >= 2 /\ name[Len(name) - 1] = "." /\ name[Len(name)] \notin {".", "/"}
    THEN SubSeq(name, 1, Len(name) - 2)
    ELSE name

(* ======================================================================= *)
(*                               the inputs                                *)
(* ======================================================================= *)

(* The files the user can pick, drop or paste.                             *)
Files == {"photo", "wide", "broken", "notes"}

File(f) ==
    CASE f = "photo"  -> [name |-> <<"photo", ".", "jpg">>, type |-> MimeJPEG,
                          size |-> 2048, decodable |-> TRUE,
                          naturalWidth |-> 1, naturalHeight |-> 3]
      [] f = "wide"   -> [name |-> <<"scan", ".", "v2", ".", "png">>, type |-> MimePNG,
                          size |-> 900, decodable |-> TRUE,
                          naturalWidth |-> 5, naturalHeight |-> 2]
      [] f = "broken" -> [name |-> <<"broken", ".", "png">>, type |-> MimePNG,
                          size |-> 10, decodable |-> FALSE,
                          naturalWidth |-> 0, naturalHeight |-> 0]
      [] f = "notes"  -> [name |-> <<"notes", ".", "txt">>, type |-> <<"text", "/", "plain">>,
                          size |-> 10, decodable |-> FALSE,
                          naturalWidth |-> 0, naturalHeight |-> 0]

(* The files picked in the runs that leave the sliders alone.              *)
PageFiles == {"photo", "broken", "notes"}

(* The options of the format selector.                                     *)
Formats == {MimePNG, MimeJPEG, MimeWEBP, MimeSVG, MimeBMP}

(* The values the quality and scale sliders can be moved to: the text of   *)
(* a number, one character per element.                                    *)
QualityValues == {<<"0">>, <<"8", "0">>}
ScaleValues == {<<"1", "0">>, <<"5", "0">>, <<"1", "0", "0">>, <<"2", "5", "0">>}

(* ======================================================================= *)
(*                             convertImageFile                            *)
(* ======================================================================= *)

(* Math.round(n / d) for n >= 0, d > 0: the nearest integer, halves up.     *)
MathRound(n, d) == (2 * n + d) \div (2 * d)

(* Math.max(1, Math.round(natural * scale)), scale in hundredths.          *)
ScaledDim_unclamped(natural, scale) == MathRound(natural * scale, 100)
ScaledDim(natural, scale) == Max(1, MathRound(natural * scale, 100))

(* The size of what the browser's encoders produce is theirs to choose; it *)
(* is a fixed function of what is encoded.                                 *)
EncodedSize(type, width, height) == 64 + Len(type) * width * height

(* canvas.toDataURL(type, quality): "data:<type>;base64,<payload>", with   *)
(* image/png in place of a type the browser cannot encode.                 *)
toDataURL(type, supported) ==
    <<"data", ":">> \o (IF supported THEN type ELSE MimePNG) \o <<";", "base64", ",", "QUJD">>

(* The characters a payload token stands for, as UTF-16 code units: a     *)
(* letter, "!", and the four letters of a base64 group stand for           *)
(* themselves; "undefined" is what String(undefined) gives.                *)
Chars(tok) ==
    CASE tok = "h" -> <<104>>
      [] tok = "!" -> <<33>>
      [] tok = "QUJD" -> <<81, 85, 74, 68>>
      [] tok = "undefined" -> <<117, 110, 100, 101, 102, 105, 110, 101, 100>>
      [] OTHER -> << >>

RECURSIVE Concat(_)
Concat(ss) == IF ss = << >> THEN << >> ELSE Head(ss) \o Concat(Tail(ss))

(* atob(raw): a string of base64 groups decodes to the characters they     *)
(* encode ("QUJD" is "ABC"); any other string makes atob throw.            *)
atob(raw) ==
    IF \A k \in DOMAIN raw : raw[k] = "QUJD"
    THEN [ok |-> TRUE, chars |-> Concat([k \in DOMAIN raw |-> <<65, 66, 67>>])]
    ELSE [ok |-> FALSE, chars |-> << >>]

(* decodeURIComponent(raw): "%41" is "A", "%E2%82%AC" is the euro sign     *)
(* U+20AC, a "%" without two hex digits makes it throw, every other        *)
(* character stands for itself.                                            *)
decodeURIComponent(raw) ==
    IF \E k \in DOMAIN raw : raw[k] = "%"
    THEN [ok |-> FALSE, chars |-> << >>]
    ELSE [ok |-> TRUE,
          chars |-> Concat([k \in DOMAIN raw |->
                              CASE raw[k] = "%41" -> <<65>>
                                [] raw[k] = "%E2%82%AC" -> <<8364>>
                                [] OTHER -> Chars(raw[k])])]

(* bytes[i] = s.charCodeAt(i) on a Uint8Array: the code unit modulo 256.   *)
charCodesToBytes(chars) == [k \in DOMAIN chars |-> chars[k] % 256]

(* dataURLToBlob(dataURL): ok = FALSE when it throws, else the Blob's type *)
(* and bytes.  parts[1] is undefined when dataURL has no ",", and atob and *)
(* decodeURIComponent turn undefined into the string "undefined".  (parts, *)
(* metaParts and decoded are bound to their values once.)                  *)
dataURLToBlob(dataURL) ==
    LET failed == [ok |-> FALSE, type |-> << >>, bytes |-> << >>]
    IN  CHOOSE blob \in {
            LET meta  == parts[1]
                raw   == IF Len(parts) >= 2 THEN parts[2] ELSE <<"undefined">>
                isBase64 == Includes(meta, "base64")
            IN  CHOOSE made \in {
                    IF Len(metaParts) < 2 THEN failed                \* undefined.split
                    ELSE LET contentType == Split(metaParts[2], ";")[1]
                         IN  CHOOSE out \in {
                                 IF ~decoded.ok THEN failed
                                 ELSE [ok |-> TRUE, type |-> contentType,
                                       bytes |-> charCodesToBytes(decoded.chars)]
                                 : decoded \in {IF isBase64 THEN atob(raw)
                                                ELSE decodeURIComponent(raw)}} : TRUE
                    : metaParts \in {Split(meta, ":")}} : TRUE
            : parts \in {Split(dataURL, ",")}} : TRUE

NoCanvas == [width |-> 0, height |-> 0]

(* What the browser's encoder makes of the quality argument: it is used    *)
(* for image/jpeg and image/webp and ignored (-1) for every other type.    *)
EncoderQuality(type, quality) ==
    IF type \in {MimeJPEG, MimeWEBP} THEN quality ELSE -1

(* What the encoder is given to encode, and how.                           *)
Encoding(c, type, width, height, quality) ==
    [file |-> c.file, width |-> width, height |-> height,
     quality |-> EncoderQuality(type, quality)]

(* The third argument of canvas.toBlob: undefined (-1) for image/png.      *)
toBlobQuality_always(mime, quality) == quality
toBlobQuality(mime, quality) == IF mime = MimePNG THEN -1 ELSE quality

(* The SVG text of the wrapper: the root element with its attributes and   *)
(* its child elements.                                                     *)
svgDocument_square(width, height, pngData) ==
    [name |-> "svg", xmlns |-> "http://www.w3.org/2000/svg",
     width |-> width, height |-> width,
     children |-> << [name |-> "image", href |-> pngData,
                      width |-> width, height |-> width] >>]
svgDocument(width, height, pngData) ==
    [name |-> "svg", xmlns |-> "http://www.w3.org/2000/svg",
     width |-> width, height |-> height,
     children |-> << [name |-> "image", href |-> pngData,
                      width |-> width, height |-> height] >>]

(* The part of convertImageFile from the resolved loadImageFromFile to the *)
(* first point where it waits again or settles.  env is what the browser   *)
(* does: toBlob throws or accepts the call, toDataURL throws or returns,   *)
(* the requested type is supported or replaced by PNG.                     *)
convertAfterLoad(c, env) ==
    LET img    == File(c.file)
        width  == ScaledDim(img.naturalWidth, c.scale)
        height == ScaledDim(img.naturalHeight, c.scale)
        cv     == [width |-> width, height |-> height]
    IN  IF c.outType = MimeSVG THEN
            IF env.toDataURL = "throws"
            THEN [status |-> "rejected", canvas |-> cv, blob |-> NoBlob,
                  calls |-> << <<"toDataURL", MimePNG, c.quality>> >>,
                  native |-> "none", message |-> "toDataURL failed"]
            ELSE [status |-> "resolved", canvas |-> cv,
                  blob |-> [type |-> MimeSVG, via |-> "svg",
                            content |-> Encoding(c, MimePNG, width, height, c.quality),
                            doc |-> svgDocument(width, height, toDataURL(MimePNG, TRUE)),
                            size |-> 120 + EncodedSize(MimePNG, width, height)],
                  calls |-> << <<"toDataURL", MimePNG, c.quality>> >>,
                  native |-> "none", message |-> ""]
        ELSE IF c.outType = MimeBMP \/ c.outType = <<"image", "/", "x", "-", "ms", "-", "bmp">> THEN
            [status |-> "resolved", canvas |-> cv,
             blob |-> [type |-> MimeBMP, via |-> "canvasToBMP",
                       content |-> Encoding(c, MimeBMP, width, height, -1),
                       size |-> fileSize(width, height)],
             calls |-> << <<"canvasToBMP", MimeBMP, -1>> >>,
             native |-> "none", message |-> ""]
        ELSE
            LET toBlobCall == <<"toBlob", c.outType, toBlobQuality(c.outType, c.quality)>>
                dataCall   == <<"toDataURL", c.outType, c.quality>>
            IN  IF env.toBlob = "throws" THEN
                    IF env.toDataURL = "throws"
                    THEN [status |-> "rejected", canvas |-> cv, blob |-> NoBlob,
                          calls |-> << toBlobCall, dataCall >>,
                          native |-> "throws", message |-> "toDataURL failed"]
                    ELSE CHOOSE settled \in {
                             IF r.ok
                             THEN [status |-> "resolved", canvas |-> cv,
                                   blob |-> [type |-> r.type, via |-> "dataURL",
                                             content |-> Encoding(c, r.type, width, height, c.quality),
                                             size |-> EncodedSize(r.type, width, height)],
                                   calls |-> << toBlobCall, dataCall, <<"dataURLToBlob", r.type, -1>> >>,
                                   native |-> "throws", message |-> ""]
                             ELSE [status |-> "rejected", canvas |-> cv, blob |-> NoBlob,
                                   calls |-> << toBlobCall, dataCall, <<"dataURLToBlob", r.type, -1>> >>,
                                   native |-> "throws", message |-> "malformed data URL"]
                             : r \in {dataURLToBlob(toDataURL(c.outType, env.supported))}} : TRUE
                ELSE [status |-> "pending", canvas |-> cv, blob |-> NoBlob,
                      calls |-> << toBlobCall >>, native |-> "none", message |-> ""]

(* The callback convertImageFile passes to canvas.toBlob, called with a    *)
(* blob (of the requested type, or PNG when unsupported) or with null.     *)
toBlobCallback(c, env) ==
    LET type == IF env.supported THEN c.outType ELSE MimePNG
        content == Encoding(c, type, c.canvas.width, c.canvas.height, c.calls[1][3])
    IN  IF env.result = "blob"
        THEN [status |-> "resolved", canvas |-> c.canvas,
              blob |-> [type |-> type, via |-> "toBlob", content |-> content,
                        size |-> EncodedSize(type, c.canvas.width, c.canvas.height)],
              calls |-> c.calls, native |-> "blob", message |-> ""]
        ELSE [status |-> "rejected", canvas |-> c.canvas, blob |-> NoBlob,
              calls |-> c.calls, native |-> "null",
              message |-> "Conversion to blob failed."]

(* convertImageFile(file, outType, quality, scale) from call to settle, in *)
(* a browser that behaves as env (the toBlob and toDataURL calls) and cb   *)
(* (the toBlob callback) say.                                              *)
convertImageFile(file, outType, quality, scale, env, cb) ==
    LET c == [file |-> file, outType |-> outType, quality |-> quality,
              scale |-> scale, canvas |-> NoCanvas, calls |-> << >>]
    IN  IF ~File(file).decodable
        THEN [status |-> "rejected", canvas |-> NoCanvas, blob |-> NoBlob,
              calls |-> << >>, native |-> "none", message |-> "Failed to load image"]
        ELSE LET r == convertAfterLoad(c, env)
             IN  IF r.status = "pending"
                 THEN toBlobCallback([c EXCEPT !.canvas = r.canvas, !.calls = r.calls], cb)
                 ELSE r

(* bytesToSize(bytes): the number, in hundredths, and the unit.            *)
bytesToSize(bytes) ==
    IF bytes = 0 THEN [hundredths |-> 0, unit |-> "B"]
    ELSE LET sizes == <<"B", "KB", "MB", "GB", "TB">>
             i == CHOOSE j \in 0 .. 4 : Pow(1024, j) <= bytes
                                         /\ (j = 4 \/ bytes < Pow(1024, j + 1))
         IN  [hundredths |-> MathRound(bytes * 100, Pow(1024, i)), unit |-> sizes[i + 1]]

(* s.toUpperCase() of a token sequence.                                    *)
Upper(s) == [k \in DOMAIN s |->
               CASE s[k] = "png"  -> "PNG"
                 [] s[k] = "jpeg" -> "JPEG"
                 [] s[k] = "webp" -> "WEBP"
                 [] s[k] = "svg"  -> "SVG"
                 [] s[k] = "xml"  -> "XML"
                 [] s[k] = "bmp"  -> "BMP"
                 [] OTHER -> s[k]]

(* ======================================================================= *)
(*                                  state                                  *)
(* ======================================================================= *)
VARIABLES
    fnCall,          \* a function called on its own: its arguments and result
    canvas,          \* the canvas handed to canvasToBMP (BMP writer runs)
    bmp,             \* what canvasToBMP returned for it
    currentFile,     \* let currentFile
    convertedBlob,   \* let convertedBlob
    convertedURL,    \* let convertedURL: a handle, 0 for null
    urls,            \* the blob URL store: handle h is urls[h]
    quota,           \* how many object URLs a run creates at most
    beforeImg,       \* beforeImg.src, and whether its load is still pending
    beforeInfo,      \* beforeInfo.textContent
    afterImg,        \* afterImg.src: a handle, 0 for ''
    afterInfo,       \* afterInfo.textContent
    fileSizeEl,      \* fileSizeEl.textContent
    formatSelect,    \* formatSelect.value
    qualityRange,    \* qualityRange.value
    qualityLabel,    \* qualityLabel.textContent
    scaleRange,      \* scaleRange.value
    convertBtn,      \* convertBtn.disabled and .textContent
    downloadBtn,     \* downloadBtn.disabled
    inflight,        \* the convertImageFile calls that have not settled
    effect           \* what the last step showed or handed out: an alert,
                     \* a settled conversion, a download link

bmpVars == << canvas, bmp >>
pageVars == << currentFile, convertedBlob, convertedURL, urls, quota, beforeImg,
               beforeInfo, afterImg, afterInfo, fileSizeEl, formatSelect,
               qualityRange, qualityLabel, scaleRange, convertBtn, downloadBtn,
               inflight, effect >>
vars == << fnCall, canvas, bmp, currentFile, convertedBlob, convertedURL, urls, quota,
           beforeImg, beforeInfo, afterImg, afterInfo, fileSizeEl, formatSelect,
           qualityRange, qualityLabel, scaleRange, convertBtn, downloadBtn,
           inflight, effect >>

(* Files are selected and conversions started until MaxURLs object URLs    *)
(* have been created for them in a run of the page, ConvURLs in a run that *)
(* also moves the sliders.                                                 *)
MaxURLs == 3
ConvURLs == 2

NoText == << >>
NoSize == [hundredths |-> 0, unit |-> "-"]      \* the "-" shown for a size
NoCall == [fn |-> "none"]
NoSettled ==
    [url |-> 0, file |-> Null, outType |-> << >>, quality |-> 0, scale |-> 0,
     decoded |-> FALSE, canvas |-> NoCanvas, calls |-> << >>, native |-> "none",
     outcome |-> "none", blob |-> NoBlob, message |-> ""]
NoDownload == [href |-> 0, filename |-> << >>, name |-> << >>, type |-> << >>]
NoEffect == [alert |-> "", settled |-> NoSettled, download |-> NoDownload]

(* The page once the scripts have run (initUI included); the browser may   *)
(* have restored the selected format.                                      *)
InitPage ==
    /\ currentFile = Null
    /\ convertedBlob = NoBlob
    /\ convertedURL = 0
    /\ urls = << >>
    /\ beforeImg = [src |-> 0, loading |-> FALSE]
    /\ beforeInfo = NoText
    /\ afterImg = 0
    /\ afterInfo = NoText
    /\ fileSizeEl = NoText
    /\ formatSelect \in Formats
    /\ qualityRange = <<"8", "0">>
    /\ qualityLabel = qualityRange
    /\ scaleRange = <<"1", "0", "0">>
    /\ convertBtn = [disabled |-> TRUE, textContent |-> "Convert"]
    /\ downloadBtn = [disabled |-> TRUE]
    /\ inflight = {}
    /\ effect = NoEffect

Init ==
    /\ fnCall = NoCall
    /\ canvas = [width |-> 1, height |-> 1, img |-> (0 :> 1)]
    /\ bmp = NoBlob
    /\ quota = MaxURLs
    /\ InitPage

(* URL.createObjectURL / URL.revokeObjectURL on the blob URL store; a      *)
(* revoked handle maps to nothing.                                         *)
createObjectURL(store, kind, blob) ==
    Append(store, [kind |-> kind, live |-> TRUE, blob |-> blob])
revokeObjectURL(store, h) ==
    IF h \in DOMAIN store
    THEN [store EXCEPT ![h] = [kind |-> store[h].kind, live |-> FALSE, blob |-> NoBlob]]
    ELSE store

(* A file is selected or a conversion started only while fewer than quota  *)
(* object URLs have been created for files; a conversion that has started  *)
(* always gets its result URL.                                             *)
CanCreate == Cardinality({h \in DOMAIN urls : urls[h].kind # "result"}) < quota

(* ------------------------------ handleFile ------------------------------ *)
(* Reached from the file input's change event, a drop on the drop area and *)
(* a paste of an image item.                                               *)
HandleFile_noReturn(f) ==
    LET file == File(f) IN
         /\ CanCreate
         /\ currentFile' = f
         /\ convertBtn' = [convertBtn EXCEPT !.disabled = FALSE]
         /\ downloadBtn' = [disabled |-> TRUE]
         /\ convertedBlob' = NoBlob
         /\ urls' = createObjectURL(urls, "preview", NoBlob)
         /\ beforeImg' = [src |-> Len(urls) + 1, loading |-> TRUE]
         /\ beforeInfo' = << file.type, bytesToSize(file.size) >>
         /\ fileSizeEl' = << "Before", bytesToSize(file.size), "After", NoSize >>
         /\ afterImg' = 0
         /\ afterInfo' = << "-" >>
         /\ effect' = IF ~StartsWithImage(file.type)
                      THEN [NoEffect EXCEPT !.alert = "Please select an image file."]
                      ELSE NoEffect
         /\ UNCHANGED << fnCall, canvas, bmp, convertedURL, quota, formatSelect, qualityRange,
                         qualityLabel, scaleRange, inflight >>
HandleFile(f) ==
    LET file == File(f) IN
    IF ~StartsWithImage(file.type)
    THEN /\ effect' = [NoEffect EXCEPT !.alert = "Please select an image file."]
         /\ UNCHANGED << fnCall, canvas, bmp, currentFile, convertedBlob, convertedURL, urls,
                         quota, beforeImg, beforeInfo, afterImg, afterInfo,
                         fileSizeEl, formatSelect, qualityRange, qualityLabel,
                         scaleRange, convertBtn, downloadBtn, inflight >>
    ELSE /\ CanCreate
         /\ currentFile' = f
         /\ convertBtn' = [convertBtn EXCEPT !.disabled = FALSE]
         /\ downloadBtn' = [disabled |-> TRUE]
         /\ convertedBlob' = NoBlob
         /\ urls' = createObjectURL(urls, "preview", NoBlob)
         /\ beforeImg' = [src |-> Len(urls) + 1, loading |-> TRUE]
         /\ beforeInfo' = << file.type, bytesToSize(file.size) >>
         /\ fileSizeEl' = << "Before", bytesToSize(file.size), "After", NoSize >>
         /\ afterImg' = 0
         /\ afterInfo' = << "-" >>
         /\ effect' = NoEffect
         /\ UNCHANGED << fnCall, canvas, bmp, convertedURL, quota, formatSelect, qualityRange,
                         qualityLabel, scaleRange, inflight >>

(* beforeImg.onload: the preview of the current file has loaded and its    *)
(* URL is revoked.                                                         *)
BeforeImgLoad ==
    /\ beforeImg.loading
    /\ File(currentFile).decodable
    /\ urls' = revokeObjectURL(urls, beforeImg.src)
    /\ beforeImg' = [beforeImg EXCEPT !.loading = FALSE]
    /\ effect' = NoEffect
    /\ UNCHANGED << fnCall, canvas, bmp, currentFile, convertedBlob, convertedURL, quota,
                    beforeInfo, afterImg, afterInfo, fileSizeEl, formatSelect,
                    qualityRange, qualityLabel, scaleRange, convertBtn, downloadBtn,
                    inflight >>

(* The preview fails to load: beforeImg has no error handler.              *)
BeforeImgError ==
    /\ beforeImg.loading
    /\ ~File(currentFile).decodable
    /\ beforeImg' = [beforeImg EXCEPT !.loading = FALSE]
    /\ effect' = NoEffect
    /\ UNCHANGED << fnCall, canvas, bmp, currentFile, convertedBlob, convertedURL, urls,
                    quota, beforeInfo, afterImg, afterInfo, fileSizeEl, formatSelect,
                    qualityRange, qualityLabel, scaleRange, convertBtn, downloadBtn,
                    inflight >>

(* -------------------------- the form controls --------------------------- *)
FormatChange(v) ==
    /\ v # formatSelect
    /\ formatSelect' = v
    /\ effect' = NoEffect
    /\ UNCHANGED << fnCall, canvas, bmp, currentFile, convertedBlob, convertedURL, urls,
                    quota, beforeImg, beforeInfo, afterImg, afterInfo, fileSizeEl,
                    qualityRange, qualityLabel, scaleRange, convertBtn, downloadBtn,
                    inflight >>

(* qualityRange's input event.                                             *)
QualityInput(v) ==
    /\ v # qualityRange
    /\ qualityRange' = v
    /\ qualityLabel' = v
    /\ effect' = NoEffect
    /\ UNCHANGED << fnCall, canvas, bmp, currentFile, convertedBlob, convertedURL, urls,
                    quota, beforeImg, beforeInfo, afterImg, afterInfo, fileSizeEl,
                    formatSelect, scaleRange, convertBtn, downloadBtn, inflight >>

ScaleInput(v) ==
    /\ v # scaleRange
    /\ scaleRange' = v
    /\ effect' = NoEffect
    /\ UNCHANGED << fnCall, canvas, bmp, currentFile, convertedBlob, convertedURL, urls,
                    quota, beforeImg, beforeInfo, afterImg, afterInfo, fileSizeEl,
                    formatSelect, qualityRange, qualityLabel, convertBtn,
                    downloadBtn, inflight >>

(* --------------------------- the Convert button ------------------------- *)
(* The result state of the page: the converted payload, its URL, the after *)
(* preview and texts, the Download button.                                 *)
ResultState ==
    [convertedBlob |-> convertedBlob,
     convertedURL  |-> convertedURL,
     live          |-> IF convertedURL = 0 THEN FALSE ELSE urls[convertedURL].live,
     afterImg      |-> afterImg,
     afterInfo     |-> afterInfo,
     fileSizeEl    |-> fileSizeEl,
     downloadDisabled |-> downloadBtn.disabled]

(* Number(text): the decimal number the text spells, 0 for the empty text, *)
(* NaN for any other text.                                                 *)
NaN == -1000000

DigitValue(ch) ==
    CASE ch = "0" -> 0 [] ch = "1" -> 1 [] ch = "2" -> 2 [] ch = "3" -> 3
      [] ch = "4" -> 4 [] ch = "5" -> 5 [] ch = "6" -> 6 [] ch = "7" -> 7
      [] ch = "8" -> 8 [] ch = "9" -> 9 [] OTHER -> NaN

RECURSIVE DecimalValue(_, _)
DecimalValue(text, k) ==
    IF k = 0 THEN 0 ELSE 10 * DecimalValue(text, k - 1) + DigitValue(text[k])

IsDigits(text) == text # << >> /\ \A k \in DOMAIN text : DigitValue(text[k]) # NaN

Number(text) ==
    IF text = << >> THEN 0
    ELSE IF IsDigits(text) THEN DecimalValue(text, Len(text))
    ELSE IF text[1] = "-" /\ IsDigits(Tail(text))
         THEN 0 - DecimalValue(Tail(text), Len(text) - 1)
    ELSE NaN

(* Math.max and Math.min: NaN when an argument is NaN.                     *)
MathMax(a, b) == IF a = NaN \/ b = NaN THEN NaN ELSE Max(a, b)
MathMin(a, b) == IF a = NaN \/ b = NaN THEN NaN ELSE Min(a, b)

(* Math.max(0, Math.min(100, Number(qualityRange.value || 80))) / 100 and  *)
(* Math.max(0.2, Math.min(2, Number(scaleRange.value) / 100)), both in     *)
(* hundredths.                                                             *)
QualityOf(value) ==
    MathMax(0, MathMin(100, IF value = << >> THEN 80 ELSE Number(value)))
ScaleOf(value) == MathMax(20, MathMin(200, Number(value)))

(* The click handler up to its await: the request is read off the form,    *)
(* convertImageFile starts and loadImageFromFile points a new Image at a   *)
(* new object URL of the file.                                             *)
ConvertClick ==
    /\ ~convertBtn.disabled
    /\ effect' = NoEffect
    /\ IF currentFile = Null
       THEN UNCHANGED << convertBtn, urls, inflight >>
       ELSE /\ CanCreate
            /\ convertBtn' = [disabled |-> TRUE, textContent |-> "Converting..."]
            /\ urls' = createObjectURL(urls, "decode", NoBlob)
            /\ inflight' = inflight \cup
                 {[url     |-> Len(urls) + 1,
                   file    |-> currentFile,
                   outType |-> formatSelect,
                   quality |-> QualityOf(qualityRange),
                   scale   |-> ScaleOf(scaleRange),
                   pc      |-> "decoding",
                   canvas  |-> NoCanvas,
                   calls   |-> << >>,
                   prior   |-> ResultState]}
    /\ UNCHANGED << fnCall, canvas, bmp, currentFile, convertedBlob, convertedURL, quota,
                    beforeImg, beforeInfo, afterImg, afterInfo, fileSizeEl,
                    formatSelect, qualityRange, qualityLabel, scaleRange,
                    downloadBtn >>

(* The record of a settled convertImageFile call: the request, what ran,   *)
(* the outcome, and the result state when the call started (prior) and     *)
(* when it settled (before).                                               *)
Settled(c, decoded, r) ==
    [url |-> c.url, file |-> c.file, outType |-> c.outType, quality |-> c.quality,
     scale |-> c.scale, decoded |-> decoded, canvas |-> r.canvas, calls |-> r.calls,
     native |-> r.native, outcome |-> r.status, blob |-> r.blob, message |-> r.message,
     prior |-> c.prior, before |-> ResultState]

(* The handler after its await when convertImageFile resolved with blob,   *)
(* and its finally block.                                                  *)
Fulfil_stale(c, r) ==
    LET store == IF convertedURL # 0 THEN revokeObjectURL(urls, convertedURL) ELSE urls
    IN  /\ convertedBlob' = r.blob
        /\ urls' = createObjectURL(store, "result", r.blob)
        /\ convertedURL' = Len(urls) + 1
        /\ afterImg' = IF convertedURL # 0 THEN convertedURL ELSE Len(urls) + 1
        /\ afterInfo' = << Upper(Split(c.outType, "/")[2]), bytesToSize(r.blob.size) >>
        /\ downloadBtn' = [disabled |-> FALSE]
        /\ fileSizeEl' = << "Before", bytesToSize(File(currentFile).size),
                            "After", bytesToSize(r.blob.size) >>
        /\ convertBtn' = [disabled |-> FALSE, textContent |-> "Convert"]
        /\ effect' = [NoEffect EXCEPT !.settled = Settled(c, TRUE, r)]
(* The handler after its await when convertImageFile resolved, and its     *)
(* finally block.                                                          *)
Fulfil(c, r) ==
    LET store == IF convertedURL # 0 THEN revokeObjectURL(urls, convertedURL) ELSE urls
    IN  /\ convertedBlob' = r.blob
        /\ urls' = createObjectURL(store, "result", r.blob)
        /\ convertedURL' = Len(urls) + 1
        /\ afterImg' = Len(urls) + 1
        /\ afterInfo' = << Upper(Split(c.outType, "/")[2]), bytesToSize(r.blob.size) >>
        /\ downloadBtn' = [disabled |-> FALSE]
        /\ fileSizeEl' = << "Before", bytesToSize(File(currentFile).size),
                            "After", bytesToSize(r.blob.size) >>
        /\ convertBtn' = [disabled |-> FALSE, textContent |-> "Convert"]
        /\ effect' = [NoEffect EXCEPT !.settled = Settled(c, TRUE, r)]

Reject_clearing(c, decoded, r) ==
    /\ effect' = [NoEffect EXCEPT !.settled = Settled(c, decoded, r),
                                  !.alert = r.message]
    /\ convertBtn' = [disabled |-> FALSE, textContent |-> "Convert"]
    /\ convertedBlob' = NoBlob
    /\ downloadBtn' = [disabled |-> TRUE]
    /\ afterImg' = 0
    /\ UNCHANGED << convertedURL, urls, afterInfo, fileSizeEl >>
(* The handler's catch block when convertImageFile rejected, and its       *)
(* finally block.                                                          *)
Reject(c, decoded, r) ==
    /\ effect' = [NoEffect EXCEPT !.settled = Settled(c, decoded, r),
                                  !.alert = r.message]
    /\ convertBtn' = [disabled |-> FALSE, textContent |-> "Convert"]
    /\ UNCHANGED << convertedBlob, convertedURL, urls, afterImg, afterInfo,
                    downloadBtn, fileSizeEl >>

Settle_noFinally(c, decoded, r) ==
    /\ inflight' = inflight \ {c}
    /\ IF r.status = "resolved" THEN Fulfil(c, r)
       ELSE /\ effect' = [NoEffect EXCEPT !.settled = Settled(c, decoded, r),
                                          !.alert = r.message]
            /\ UNCHANGED << convertBtn, convertedBlob, convertedURL, urls, afterImg,
                            afterInfo, downloadBtn, fileSizeEl >>
(* convertImageFile settles and the handler resumes after its await.       *)
Settle(c, decoded, r) ==
    /\ inflight' = inflight \ {c}
    /\ IF r.status = "resolved" THEN Fulfil(c, r) ELSE Reject(c, decoded, r)

ToBlobEnv == [toBlob : {"accepts", "throws"}, toDataURL : {"ok", "throws"},
              supported : BOOLEAN]
CallbackEnv == [result : {"blob", "null"}, supported : BOOLEAN]

(* img.onload of a pending conversion: convertImageFile runs on, to the    *)
(* toBlob call or to its end.                                              *)
ImgLoad(c) ==
    /\ c.pc = "decoding"
    /\ File(c.file).decodable
    /\ UNCHANGED << fnCall, canvas, bmp, currentFile, quota, beforeImg, beforeInfo,
                    formatSelect, qualityRange, qualityLabel, scaleRange >>
    /\ \E env \in ToBlobEnv : \E r \in {convertAfterLoad(c, env)} :
         IF r.status = "pending"
         THEN /\ inflight' = (inflight \ {c}) \cup
                    {[c EXCEPT !.pc = "encoding", !.canvas = r.canvas, !.calls = r.calls]}
              /\ effect' = NoEffect
              /\ UNCHANGED << convertedBlob, convertedURL, urls, afterImg, afterInfo,
                              downloadBtn, fileSizeEl, convertBtn >>
         ELSE Settle(c, TRUE, r)

loadFailed_continues(c) ==
    convertAfterLoad(c, [toBlob |-> "throws", toDataURL |-> "ok", supported |-> TRUE])
(* What loadImageFromFile's rejection makes of convertImageFile.           *)
loadFailed(c) ==
    [status |-> "rejected", canvas |-> NoCanvas, blob |-> NoBlob, calls |-> << >>,
     native |-> "none", message |-> "Failed to load image"]

(* img.onerror of a pending conversion: loadImageFromFile rejects.         *)
ImgError(c) ==
    /\ c.pc = "decoding"
    /\ ~File(c.file).decodable
    /\ UNCHANGED << fnCall, canvas, bmp, currentFile, quota, beforeImg, beforeInfo,
                    formatSelect, qualityRange, qualityLabel, scaleRange >>
    /\ \E r \in {loadFailed(c)} : Settle(c, FALSE, r)

(* The browser calls the toBlob callback of a pending conversion.          *)
ToBlobDone(c) ==
    /\ c.pc = "encoding"
    /\ UNCHANGED << fnCall, canvas, bmp, currentFile, quota, beforeImg, beforeInfo,
                    formatSelect, qualityRange, qualityLabel, scaleRange >>
    /\ \E env \in CallbackEnv : \E r \in {toBlobCallback(c, env)} : Settle(c, TRUE, r)

(* -------------------------- the Download button ------------------------- *)
DownloadExt(value) ==
    IF Includes(value, "svg") THEN <<"svg">>
    ELSE IF Len(Split(value, "/")) >= 2 /\ Split(value, "/")[2] # << >>
         THEN Split(value, "/")[2]
         ELSE <<"img">>

DownloadName(f) ==
    IF f # Null /\ File(f).name # << >> THEN StripExt(File(f).name) ELSE <<"converted">>

DownloadClick ==
    /\ ~downloadBtn.disabled
    /\ IF convertedBlob = NoBlob
       THEN effect' = NoEffect
       ELSE effect' = [NoEffect EXCEPT !.download =
                         [href     |-> convertedURL,
                          filename |-> DownloadName(currentFile) \o <<".">>
                                          \o DownloadExt(formatSelect),
                          name     |-> IF currentFile = Null THEN << >>
                                       ELSE File(currentFile).name,
                          type     |-> convertedBlob.type]]
    /\ UNCHANGED << fnCall, canvas, bmp, currentFile, convertedBlob, convertedURL, urls,
                    quota, beforeImg, beforeInfo, afterImg, afterInfo, fileSizeEl,
                    formatSelect, qualityRange, qualityLabel, scaleRange, convertBtn,
                    downloadBtn, inflight >>

(* The page, the sliders left where they are.                              *)
Next ==
    \/ \E f \in PageFiles : HandleFile(f)
    \/ BeforeImgLoad
    \/ BeforeImgError
    \/ \E v \in Formats : FormatChange(v)
    \/ ConvertClick
    \/ \E c \in inflight : ImgLoad(c)
    \/ \E c \in inflight : ImgError(c)
    \/ \E c \in inflight : ToBlobDone(c)
    \/ DownloadClick

Spec == Init /\ [][Next]_vars

(* The page when the browser delivers what it owes: the load or error      *)
(* event of an image whose src was set, and the callback of a toBlob call  *)
(* it accepted.                                                            *)
Delivery ==
    /\ WF_vars(\E c \in inflight : ImgLoad(c))
    /\ WF_vars(\E c \in inflight : ImgError(c))
    /\ WF_vars(\E c \in inflight : ToBlobDone(c))

SpecLive == Init /\ [][Next]_vars /\ Delivery

(* The page with the sliders moved, for shorter runs.                      *)
InitConv ==
    /\ fnCall = NoCall
    /\ canvas = [width |-> 1, height |-> 1, img |-> (0 :> 1)]
    /\ bmp = NoBlob
    /\ quota = ConvURLs
    /\ InitPage

NextConv ==
    \/ \E f \in Files : HandleFile(f)
    \/ \E v \in QualityValues : QualityInput(v)
    \/ \E v \in ScaleValues : ScaleInput(v)
    \/ ConvertClick
    \/ \E c \in inflight : ImgLoad(c)
    \/ \E c \in inflight : ImgError(c)
    \/ \E c \in inflight : ToBlobDone(c)

SpecConv == InitConv /\ [][NextConv]_vars

(* ======================================================================= *)
(*                       runs of the BMP writer alone                      *)
(* ======================================================================= *)
Dims == {d \in (1 .. MaxW) \X (1 .. MaxH) : d[1] * d[2] <= MaxPixels}

Canvases ==
    UNION {[width : {d[1]}, height : {d[2]},
            img : [0 .. (d[1] * d[2] - 1) -> 1 .. Len(Palette)]] : d \in Dims}

InitBMP ==
    /\ fnCall = NoCall
    /\ canvas \in Canvases
    /\ bmp = NoBlob
    /\ quota = 0
    /\ InitPage
    /\ formatSelect = MimeBMP

EncodeBMP ==
    /\ bmp = NoBlob
    /\ bmp' = canvasToBMP(canvas)
    /\ UNCHANGED << fnCall, canvas >>
    /\ UNCHANGED pageVars

NextBMP == EncodeBMP

SpecBMP == InitBMP /\ [][NextBMP]_vars

(* ======================================================================= *)
(*          the Convert handler's reading of the sliders, alone            *)
(* ======================================================================= *)
MaxText == 3

SliderChars == {"0", "1", "2", "5", "8", "-", "a"}

(* The texts a form control's value can be asked to hold.                  *)
Texts == UNION {[1 .. n -> SliderChars] : n \in 0 .. MaxText}

(* One control holds any text while the other is empty or holds the same.  *)
InitSliders ==
    /\ fnCall \in [fn : {"readSliders"}, qualityValue : Texts, scaleValue : Texts,
                   done : {FALSE}, quality : {0}, scale : {0}]
    /\ fnCall.qualityValue = fnCall.scaleValue \/ << >> \in {fnCall.qualityValue, fnCall.scaleValue}
    /\ canvas = [width |-> 1, height |-> 1, img |-> (0 :> 1)]
    /\ bmp = NoBlob
    /\ quota = 0
    /\ InitPage
    /\ formatSelect = MimePNG

(* The two const declarations of the click handler.                        *)
ReadSliders ==
    /\ fnCall.fn = "readSliders"
    /\ ~fnCall.done
    /\ fnCall' = [fnCall EXCEPT !.done = TRUE,
                                !.quality = QualityOf(fnCall.qualityValue),
                                !.scale = ScaleOf(fnCall.scaleValue)]
    /\ UNCHANGED << canvas, bmp >>
    /\ UNCHANGED pageVars

NextSliders == ReadSliders

SpecSliders == InitSliders /\ [][NextSliders]_vars

(* ======================================================================= *)
(*                        runs of dataURLToBlob alone                      *)
(* ======================================================================= *)
MaxPayload == 2

PayloadTokens == {"h", "!", "%41", "%E2%82%AC", "%", "QUJD"}

Payloads == UNION {[1 .. n -> PayloadTokens] : n \in 0 .. MaxPayload}

(* The strings handed to dataURLToBlob: with or without "data:", a type,   *)
(* ";base64", and "," and a payload.                                       *)
DataURLs ==
    {prefix \o type \o enc \o rest :
        prefix \in {<<"data", ":">>, <<"data">>, << >>},
        type \in {MimePNG, <<"text", "/", "plain">>, << >>},
        enc \in {<<";", "base64">>, << >>},
        rest \in {<< >>} \cup {<<",">> \o p : p \in Payloads}}

InitDataURL ==
    /\ fnCall \in [fn : {"dataURLToBlob"}, dataURL : DataURLs, done : {FALSE},
                   result : {[ok |-> FALSE, type |-> << >>, bytes |-> << >>]}]
    /\ canvas = [width |-> 1, height |-> 1, img |-> (0 :> 1)]
    /\ bmp = NoBlob
    /\ quota = 0
    /\ InitPage
    /\ formatSelect = MimePNG

CallDataURLToBlob ==
    /\ fnCall.fn = "dataURLToBlob"
    /\ ~fnCall.done
    /\ fnCall' = [fnCall EXCEPT !.done = TRUE, !.result = dataURLToBlob(fnCall.dataURL)]
    /\ UNCHANGED << canvas, bmp >>
    /\ UNCHANGED pageVars

NextDataURL == CallDataURLToBlob

SpecDataURL == InitDataURL /\ [][NextDataURL]_vars

(* ======================================================================= *)
(*             two runs of convertImageFile that differ in quality          *)
(* ======================================================================= *)
(* The qualities of the two calls, in hundredths.                          *)
PairQualities == {QualityOf(v) : v \in QualityValues \cup {<<"1", "0", "0">>}}

ImageFiles == {f \in Files : StartsWithImage(File(f).type)}

InitPair ==
    /\ fnCall \in [fn : {"convertImageFile"}, file : ImageFiles, outType : Formats,
                   scale : {ScaleOf(v) : v \in ScaleValues},
                   quality : PairQualities \X PairQualities,
                   done : {FALSE}, results : {<< >>}]
    /\ canvas = [width |-> 1, height |-> 1, img |-> (0 :> 1)]
    /\ bmp = NoBlob
    /\ quota = 0
    /\ InitPage

(* Both calls run to their end in the same browser.                        *)
ConvertTwice ==
    /\ fnCall.fn = "convertImageFile"
    /\ ~fnCall.done
    /\ \E env \in ToBlobEnv, cb \in CallbackEnv :
         fnCall' = [fnCall EXCEPT
                      !.done = TRUE,
                      !.results = [k \in 1 .. 2 |->
                          convertImageFile(fnCall.file, fnCall.outType,
                                           fnCall.quality[k], fnCall.scale, env, cb)]]
    /\ UNCHANGED << canvas, bmp >>
    /\ UNCHANGED pageVars

NextPair == ConvertTwice

SpecPair == InitPair /\ [][NextPair]_vars

(* ----------------------- properties of canvasToBMP ---------------------- *)
Encoded == bmp.type = MimeBMP

(* Source pixel (x, y) of the canvas, y = 0 the top row: <<r, g, b, a>>.   *)
SrcPixel(x, y) == Palette[canvas.img[y * canvas.width + x]]

ReadU32(buf, off) ==
    buf[off] + 256 * buf[off + 1] + 65536 * buf[off + 2] + 16777216 * buf[off + 3]
ReadU16(buf, off) == buf[off] + 256 * buf[off + 1]
ReadI32(buf, off) ==
    IF buf[off + 3] >= 128
    THEN buf[off] + 256 * buf[off + 1] + 65536 * buf[off + 2]
         + 16777216 * (buf[off + 3] - 256)
    ELSE ReadU32(buf, off)

AlphaValues == {Palette[k][4] : k \in 1 .. Len(Palette)}

(* C1: the pixel array is bottom-up, each pixel written as Blue, Green,    *)
(* Red at 54 + (height-1-y)*rowStride + 3*x, every row ends with           *)
(* rowStride - 3*width zero bytes, and no alpha byte is written; the 2x2   *)
(* image red, green / blue, yellow gives a 70-byte file whose first pixel  *)
(* row is the bottom source row in BGR order padded to 8 bytes.            *)
C1_PixelArrayLayout ==
    Encoded =>
        LET W == canvas.width
            H == canvas.height
            stride == rowStride(W)
            buf == bmp.buffer
        IN  /\ \A y \in 0 .. (H - 1) : \A x \in 0 .. (W - 1) :
                  LET at == 54 + (H - 1 - y) * stride + 3 * x
                  IN  /\ buf[at]     = SrcPixel(x, y)[3]
                      /\ buf[at + 1] = SrcPixel(x, y)[2]
                      /\ buf[at + 2] = SrcPixel(x, y)[1]
            /\ \A row \in 0 .. (H - 1) : \A k \in (3 * W) .. (stride - 1) :
                  buf[54 + row * stride + k] = 0
            /\ \A k \in DOMAIN bmp.log :
                  bmp.log[k].at >= 54 => bmp.log[k].b \notin AlphaValues
            /\ (W = 2 /\ H = 2 /\ canvas.img = (0 :> 1 @@ 1 :> 2 @@ 2 :> 3 @@ 3 :> 4))
                  => /\ Len(bmp.log) = 70
                     /\ DOMAIN buf = 0 .. 69
                     /\ [k \in 1 .. 8 |-> buf[53 + k]] = <<255, 0, 0, 0, 255, 255, 0, 0>>

C1_Witness ==
    /\ Encoded
    /\ canvas.width = 2 /\ canvas.height = 2
    /\ canvas.img = (0 :> 1 @@ 1 :> 2 @@ 2 :> 3 @@ 3 :> 4)
    /\ bmp.buffer[54] = 255 /\ bmp.buffer[59] = 255

(* C2: the buffer is 54 + rowStride*height bytes long, the size field at   *)
(* offset 2 and the image-size field at offset 34 agree with it, the       *)
(* header cursor ends at 54, the pixel cursor ends at the file size, every *)
(* byte is written exactly once and no write lands at or past the end.     *)
C2_SizeAndCursor ==
    Encoded =>
        LET W == canvas.width
            H == canvas.height
            total == 54 + rowStride(W) * H
        IN  /\ DOMAIN bmp.buffer = 0 .. (total - 1)
            /\ bmp.size = total
            /\ ReadU32(bmp.buffer, 2) = total
            /\ ReadU32(bmp.buffer, 34) = rowStride(W) * H
            /\ bmp.offset = 54
            /\ bmp.p = total
            /\ \A i \in 0 .. (total - 1) :
                  Cardinality({k \in DOMAIN bmp.log : bmp.log[k].at = i}) = 1
            /\ \A k \in DOMAIN bmp.log : bmp.log[k].at \in 0 .. (total - 1)
            /\ ~bmp.threw

C2_Witness ==
    /\ Encoded
    /\ canvas.height >= 2
    /\ padding(canvas.width) > 0
    /\ bmp.p = bmp.size

CeilDiv(a, b) == CHOOSE q \in 0 .. a : q * b >= a /\ (q - 1) * b < a

(* C3: rowStride = ceil(24*width/32)*4, a multiple of 4, at least 3*width, *)
(* and the per-row padding is 0, 1, 2 or 3.                                *)
C3_RowStride ==
    Encoded =>
        LET W == canvas.width
        IN  /\ rowStride(W) = CeilDiv(24 * W, 32) * 4
            /\ rowStride(W) % 4 = 0
            /\ rowStride(W) >= 3 * W
            /\ padding(W) \in 0 .. 3
            /\ Len(bmp.log) = 54 + (3 * W + padding(W)) * canvas.height

C3_Witness ==
    /\ Encoded
    /\ canvas.width = 3
    /\ padding(canvas.width) = 3
    /\ rowStride(canvas.width) = 12

(* A BMP reader, per the BITMAPFILEHEADER / BITMAPINFOHEADER layout.       *)
BMPValid(buf) ==
    /\ buf[0] = 66 /\ buf[1] = 77
    /\ ReadU32(buf, 10) = 54
    /\ ReadU32(buf, 14) = 40
    /\ ReadU16(buf, 26) = 1
    /\ ReadU16(buf, 28) = 24
    /\ ReadU32(buf, 30) = 0
    /\ ReadI32(buf, 22) > 0

BMPParse(buf) ==
    LET off == ReadU32(buf, 10)
        W   == ReadI32(buf, 18)
        H   == ReadI32(buf, 22)
        bpp == ReadU16(buf, 28)
        stride == ((bpp * W + 31) \div 32) * 4
    IN  [width  |-> W,
         height |-> H,
         rgb    |-> [k \in 0 .. (W * H - 1) |->
                       LET x == k % W
                           y == k \div W
                           at == off + (H - 1 - y) * stride + (bpp \div 8) * x
                       IN  << buf[at + 2], buf[at + 1], buf[at] >>]]

(* C4: parsing the produced bytes as a BMP file recovers the width, the    *)
(* height and every pixel's Red, Green and Blue.                           *)
C4_RoundTrip ==
    Encoded =>
        /\ BMPValid(bmp.buffer)
        /\ LET parsed == BMPParse(bmp.buffer)
           IN  /\ parsed.width = canvas.width
               /\ parsed.height = canvas.height
               /\ \A k \in 0 .. (canvas.width * canvas.height - 1) :
                     parsed.rgb[k] = << Palette[canvas.img[k]][1],
                                        Palette[canvas.img[k]][2],
                                        Palette[canvas.img[k]][3] >>

C4_Witness ==
    /\ Encoded
    /\ canvas.width = 3 /\ canvas.height = 2
    /\ canvas.img[0] = 1 /\ canvas.img[5] = 3 /\ canvas.img[2] = 4
    /\ BMPParse(bmp.buffer).rgb[5] = <<0, 0, 255>>

(* ======================================================================= *)
(*                         properties of the page                          *)
(* ======================================================================= *)
NativeTargets == {MimePNG, MimeJPEG, MimeWEBP}

(* The conversions whose canvas has been sized: the one that settled in    *)
(* the last step after decoding, and those waiting for the toBlob callback.*)
Sized ==
    {c \in inflight : c.pc = "encoding"}
        \cup (IF effect.settled.outcome # "none" /\ effect.settled.decoded
              THEN {effect.settled} ELSE {})

(* d = max(1, round(natural * scale)): r is the integer with               *)
(* r - 1/2 <= natural * scale < r + 1/2, scale in hundredths.              *)
IsScaled(natural, scale, d) ==
    \E r \in 0 .. (2 * natural + 1) :
        /\ 100 * r - 50 <= natural * scale
        /\ natural * scale < 100 * r + 50
        /\ d = (IF r >= 1 THEN r ELSE 1)

(* C5: for a decodable image and a scale in [0.2, 2.0], the canvas is      *)
(* max(1, round(naturalWidth*scale)) by max(1, round(naturalHeight*scale)),*)
(* the same scale on both axes, both at least 1.                           *)
C5_CanvasSize ==
    \A c \in Sized :
        (File(c.file).naturalWidth >= 1 /\ File(c.file).naturalHeight >= 1
         /\ c.scale \in 20 .. 200)
        => /\ IsScaled(File(c.file).naturalWidth, c.scale, c.canvas.width)
           /\ IsScaled(File(c.file).naturalHeight, c.scale, c.canvas.height)
           /\ c.canvas.width >= 1
           /\ c.canvas.height >= 1

C5_Witness ==
    /\ effect.settled.outcome = "resolved"
    /\ effect.settled.file = "photo"
    /\ scaleRange = <<"1", "0">>
    /\ effect.settled.scale = 20
    /\ effect.settled.canvas = [width |-> 1, height |-> 1]

(* C6: for a native raster target, when the built-in encoder throws or     *)
(* calls back with no blob, the conversion falls back to toDataURL at the  *)
(* requested quality and dataURLToBlob, and is rejected only if that       *)
(* fallback fails too.                                                     *)
C6_FallbackOnNativeFailure ==
    LET s == effect.settled IN
    (s.outcome # "none" /\ s.outType \in NativeTargets /\ s.native \in {"throws", "null"})
    => /\ \E k \in DOMAIN s.calls : s.calls[k] = <<"toDataURL", s.outType, s.quality>>
       /\ s.outcome = "rejected" => s.message \in {"toDataURL failed", "malformed data URL"}

(* C7: when the image fails to decode the conversion is rejected, with no  *)
(* canvas, no encoder call and no blob, whatever the target format; and    *)
(* nothing of that is done while the decode is pending.                    *)
C7_DecodeFailureAborts ==
    /\ LET s == effect.settled IN
       (s.outcome # "none" /\ ~File(s.file).decodable)
       => /\ s.outcome = "rejected"
          /\ effect.alert = "Failed to load image"
          /\ s.canvas = NoCanvas
          /\ s.calls = << >>
          /\ s.blob = NoBlob
          /\ convertedBlob = s.before.convertedBlob
    /\ \A c \in inflight :
          (c.pc = "decoding" \/ ~File(c.file).decodable)
          => c.pc = "decoding" /\ c.canvas = NoCanvas /\ c.calls = << >>

C7_Witness ==
    /\ effect.settled.outcome = "rejected"
    /\ effect.settled.file = "broken"
    /\ effect.settled.outType = MimeBMP
    /\ effect.alert = "Failed to load image"

(* C8 as stated: after a failed conversion the result state is what it was *)
(* immediately before that conversion was started.                         *)
C8_FailureRestoresPrior ==
    effect.settled.outcome = "rejected" => ResultState = effect.settled.prior

(* C8, amended: a failed conversion reports its message and leaves the     *)
(* result state as it was immediately before the failure was handled.      *)
C8_FailureLeavesState ==
    effect.settled.outcome = "rejected"
    => /\ ResultState = effect.settled.before
       /\ effect.alert = effect.settled.message
       /\ effect.alert # ""

C8_Witness ==
    /\ effect.settled.outcome = "rejected"
    /\ convertedBlob # NoBlob
    /\ convertedURL # 0
    /\ ~downloadBtn.disabled

(* A handle is in use while the image it was made for is loading, or while *)
(* it is the URL of the current result.                                    *)
InUse(h) ==
    \/ h = beforeImg.src /\ beforeImg.loading
    \/ h = convertedURL
    \/ \E c \in inflight : c.url = h /\ c.pc = "decoding"

LiveHandles == {h \in DOMAIN urls : urls[h].live}

(* C9: every object URL is revoked once it is superseded, so the handles   *)
(* created and not revoked are those still in use: at most the preview,    *)
(* the result and one per pending conversion.                              *)
C9_HandlesReleased ==
    /\ \A h \in LiveHandles : InUse(h)
    /\ Cardinality(LiveHandles) <= 2 + Cardinality(inflight)

(* The extension a MIME type implies.                                      *)
ImpliedExt(type) == IF type = MimeSVG THEN <<"svg">> ELSE Split(type, "/")[2]

(* C10: the filename the Download handler suggests is the current file's   *)
(* name with its extension replaced by the one the downloaded payload's    *)
(* MIME type implies.                                                      *)
C10_DownloadName ==
    effect.download.href # 0
    => effect.download.filename =
          StripExt(effect.download.name) \o <<".">> \o ImpliedExt(effect.download.type)

(* ------------------------------ quality -------------------------------- *)
TwoRuns == fnCall.fn = "convertImageFile" /\ fnCall.done

EncoderCalls(r, name) == SelectSeq(r.calls, LAMBDA call : call[1] = name)

(* C11 as stated: two runs on the same file and scale that differ in       *)
(* quality only make the same calls with the same arguments, on the native *)
(* and on the fallback path, and give the same payload for image/png; they *)
(* give the same payload for image/bmp.                                    *)
C11_QualityNeverPassed ==
    TwoRuns =>
        LET a == fnCall.results[1]
            b == fnCall.results[2]
        IN  /\ fnCall.outType = MimePNG
                => a.calls = b.calls /\ a.status = b.status /\ a.blob = b.blob
            /\ fnCall.outType = MimeBMP => a.status = b.status /\ a.blob = b.blob

(* C11, amended: for image/png the two runs call canvas.toBlob with the    *)
(* same arguments and settle alike with the same payload, on the native    *)
(* and on the fallback path; for image/bmp they make the same calls and    *)
(* give the same payload.  (The fallback hands quality to toDataURL.)      *)
C11_QualityIgnored ==
    TwoRuns =>
        LET a == fnCall.results[1]
            b == fnCall.results[2]
        IN  /\ fnCall.outType = MimePNG
                => /\ EncoderCalls(a, "toBlob") = EncoderCalls(b, "toBlob")
                   /\ a.status = b.status
                   /\ a.blob = b.blob
            /\ fnCall.outType = MimeBMP => a = b

C11_Witness ==
    /\ TwoRuns
    /\ fnCall.outType = MimePNG
    /\ fnCall.quality = <<0, 100>>
    /\ fnCall.results[1].status = "resolved"
    /\ fnCall.results[1].blob.via = "dataURL"
    /\ fnCall.results[2].blob.type = MimePNG

(* ---------------------------- SVG wrapper ------------------------------- *)
ImageElements(doc) == SelectSeq(doc.children, LAMBDA e : e.name = "image")

HasPNGTag(dataURL) ==
    /\ Len(dataURL) >= 2 + Len(MimePNG)
    /\ SubSeq(dataURL, 1, 2 + Len(MimePNG)) = <<"data", ":">> \o MimePNG

(* C12: a conversion to image/svg+xml that resolves gives a payload of     *)
(* type image/svg+xml whose root element declares the width and height of  *)
(* the resampled canvas and holds exactly one image element, of the same   *)
(* width and height, whose href is the canvas's data string with the PNG   *)
(* type tag; canvas.toBlob and canvasToBMP are not called.                 *)
C12_SvgWrapper ==
    LET s == effect.settled
    IN  (s.outcome = "resolved" /\ s.outType = MimeSVG)
        => /\ s.blob.type = MimeSVG
           /\ s.blob.doc.name = "svg"
           /\ s.blob.doc.width = s.canvas.width
           /\ s.blob.doc.height = s.canvas.height
           /\ s.canvas.width = ScaledDim(File(s.file).naturalWidth, s.scale)
           /\ s.canvas.height = ScaledDim(File(s.file).naturalHeight, s.scale)
           /\ Len(s.blob.doc.children) = 1
           /\ Len(ImageElements(s.blob.doc)) = 1
           /\ LET image == ImageElements(s.blob.doc)[1]
              IN  /\ image.width = s.canvas.width
                  /\ image.height = s.canvas.height
                  /\ HasPNGTag(image.href)
                  /\ image.href = toDataURL(MimePNG, TRUE)
           /\ s.calls = << <<"toDataURL", MimePNG, s.quality>> >>
           /\ \A k \in DOMAIN s.calls : s.calls[k][1] \notin {"toBlob", "canvasToBMP"}

C12_Witness ==
    /\ effect.settled.outcome = "resolved"
    /\ effect.settled.outType = MimeSVG
    /\ effect.settled.file = "wide"
    /\ effect.settled.scale = 50
    /\ effect.settled.blob.doc.width = 3
    /\ effect.settled.blob.doc.height = 1

(* ---------------------------- dataURLToBlob ----------------------------- *)
(* What a data string declares, read off the string itself: the text       *)
(* before the first "," is "data:" and a type, then ";"-separated          *)
(* parameters; the payload is what follows that ",".                       *)
MetaOf(dataURL) == Split(dataURL, ",")[1]

HasPayload(dataURL) == Includes(dataURL, ",")

PayloadOf(dataURL) == SubSeq(dataURL, Len(MetaOf(dataURL)) + 2, Len(dataURL))

DeclaredType(dataURL) ==
    LET meta == MetaOf(dataURL)
    IN  IF Len(meta) >= 2 /\ meta[1] = "data" /\ meta[2] = ":"
        THEN Split(SubSeq(meta, 3, Len(meta)), ";")[1]
        ELSE << >>

DeclaresBase64(dataURL) == Includes(MetaOf(dataURL), "base64")

Decodable(dataURL) ==
    IF DeclaresBase64(dataURL)
    THEN \A k \in DOMAIN PayloadOf(dataURL) : PayloadOf(dataURL)[k] = "QUJD"
    ELSE \A k \in DOMAIN PayloadOf(dataURL) : PayloadOf(dataURL)[k] # "%"

CalledDataURLToBlob == fnCall.fn = "dataURLToBlob" /\ fnCall.done

(* C13: dataURLToBlob throws, and returns no Blob, whenever the string has *)
(* no type tag (no "data:<type>" before the payload, or an empty type) or  *)
(* its payload is absent or cannot be decoded; when it returns a Blob, the *)
(* Blob's type is the declared type and, for a percent-encoded payload,    *)
(* every byte is the code point of the corresponding decoded character.    *)
C13_MalformedDataURLFails ==
    CalledDataURLToBlob =>
        LET url == fnCall.dataURL
            r   == fnCall.result
        IN  /\ (DeclaredType(url) = << >> \/ ~HasPayload(url) \/ ~Decodable(url)) => ~r.ok
            /\ r.ok => r.type = DeclaredType(url)
            /\ (r.ok /\ ~DeclaresBase64(url))
                => r.bytes = decodeURIComponent(PayloadOf(url)).chars

(* ------------------------------ sliders --------------------------------- *)
(* C14: whatever text the quality and scale controls hold, empty and       *)
(* non-numeric text included, the quality handed to convertImageFile is a  *)
(* number in [0, 1] and the scale a number in [0.2, 2.0] (in hundredths:   *)
(* 0 .. 100 and 20 .. 200).                                                *)
C14_ArgumentsInRange ==
    (fnCall.fn = "readSliders" /\ fnCall.done)
    => /\ fnCall.quality \in 0 .. 100
       /\ fnCall.scale \in 20 .. 200

(* --------------------------- rejected files ----------------------------- *)
(* C15: a step in which handleFile turns a file away (its type does not    *)
(* start with "image/", the alert is shown) leaves currentFile,            *)
(* convertedBlob, convertedURL and its handle, both previews, the info     *)
(* texts, the two buttons and the pending conversions as they were.        *)
C15_RejectedFileChangesNothing ==
    [][effect'.alert = "Please select an image file."
       => UNCHANGED << currentFile, convertedBlob, convertedURL, urls, beforeImg,
                       beforeInfo, afterImg, afterInfo, fileSizeEl, convertBtn,
                       downloadBtn, inflight >>]_vars

C15_Witness ==
    /\ effect.alert = "Please select an image file."
    /\ currentFile = "photo"
    /\ convertedBlob # NoBlob
    /\ convertedURL # 0
    /\ afterImg = convertedURL
    /\ ~downloadBtn.disabled
    /\ ~convertBtn.disabled

(* ------------------------ overlapping conversions ----------------------- *)
(* C16: whenever Download is enabled, convertedBlob is a conversion of the *)
(* file that is selected now; the conversion of a file selected earlier    *)
(* never becomes the downloadable result once another file is selected.    *)
C16_DownloadIsOfCurrentFile ==
    ~downloadBtn.disabled
    => /\ convertedBlob # NoBlob
       /\ convertedBlob.content.file = currentFile

(* C17: at most one conversion is in flight, and the Convert button is     *)
(* disabled for as long as one is, whatever files are selected meanwhile.  *)
C17_OneConversionAtATime ==
    /\ Cardinality(inflight) <= 1
    /\ inflight # {} => convertBtn.disabled

C19_ConversionsSettle ==
    /\ (inflight # {}) ~> (inflight = {})
    /\ [](effect.settled.outcome # "none"
          => convertBtn = [disabled |-> FALSE, textContent |-> "Convert"])
    /\ [](convertBtn.textContent = "Converting..." => inflight # {})

C19_Witness ==
    /\ effect.settled.outcome = "rejected"
    /\ effect.settled.decoded
    /\ effect.settled.native = "null"
    /\ inflight = {}
    /\ convertBtn = [disabled |-> FALSE, textContent |-> "Convert"]

====
